---- MODULE Spec2Model ----
(***************************************************************************)
(* The 15-puzzle of src/src/main.rs: the Board (cells, size, solved), its  *)
(* operations (new, check_solved, get_empty_index, get_neighbor_index,     *)
(* move_empty, scramble) and the driver loop of main.                      *)
(*                                                                         *)
(* Indices are the code's 0-based indices; cells is a TLA+ sequence, so    *)
(* the cell at index k is cells[k + 1].                                    *)
(***************************************************************************)
EXTENDS Integers, Sequences, FiniteSets, TLC

VARIABLES
    board,                  \* the Board: [cells, size, solved]
    pc,                     \* position of the running program
    ret,                    \* where scramble returns to
    i,                      \* scramble: the round counter _i
    remaining,              \* scramble: iterations left of the inner loop
    completed_level_count,  \* main: the level counter
    start,                  \* call log: cells when the logged calls began
    calls,                  \* call log: directions of the move_empty calls made
    probe,                  \* a get_neighbor_index call: arguments and result
    twin                    \* a second Board, scrambled with the same draws

vars == <<board, pc, ret, i, remaining, completed_level_count, start, calls,
          probe, twin>>

(***************************************************************************)
(* Program constants                                                       *)
(***************************************************************************)
\* the literal the code uses for the empty slot (get_empty_index, draw)
EMPTY == 16
\* main constructs a 4x4 board
MainSize == 4
\* for _i in 0..20
Rounds == 20
\* rng.gen_range(20..100): 20 <= move_count < 100
MoveCountLo == 20
MoveCountEnd == 100
\* rng.gen_range(0..4): 0 <= direction < 4
DirectionEnd == 4

(***************************************************************************)
(* Bounds of the exploration                                               *)
(***************************************************************************)
\* scramble and the driver are explored on the layouts at most this many
\* slides away from the solved layout
MaxDist == 3
\* longest logged run of move_empty calls on a board
MaxCalls == 3
\* levels completed before SPACE is no longer offered
MaxLevels == 1
\* largest board size constructed
MaxSize == 5

Directions == {"Up", "Down", "Left", "Right"}

\* Option::None of get_neighbor_index / position()
None == -1
\* Direction::from on an integer outside 0..=3 panics
Invalid == "Invalid"

(***************************************************************************)
(* Pure functions of the code                                              *)
(***************************************************************************)
\* a mutant of DirectionFrom: the arms are numbered from 1
DirectionFrom_from_one(direction) ==
    CASE direction = 1 -> "Up"
      [] direction = 2 -> "Down"
      [] direction = 3 -> "Left"
      [] direction = 4 -> "Right"
      [] OTHER -> Invalid

\* impl From<i32> for Direction
DirectionFrom(direction) ==
    CASE direction = 0 -> "Up"
      [] direction = 1 -> "Down"
      [] direction = 2 -> "Left"
      [] direction = 3 -> "Right"
      [] OTHER -> Invalid

\* (1..size*size+1).collect()
SolvedCells(size) == [k \in 1..(size * size) |-> k]

\* Board::check_solved: every cell at index k-1 holds k
check_solved(b) ==
    [b EXCEPT !.solved = \A k \in 1..Len(b.cells) : b.cells[k] = (k - 1) + 1]

\* Board::new
new(cells, size) ==
    check_solved([cells |-> cells, size |-> size, solved |-> FALSE])

\* Board::get_empty_index before the unwrap: position of the first 16, or None
get_empty_index(b) ==
    IF \E k \in 1..Len(b.cells) : b.cells[k] = EMPTY
    THEN (CHOOSE k \in 1..Len(b.cells) :
              /\ b.cells[k] = EMPTY
              /\ \A j \in 1..(k - 1) : b.cells[j] # EMPTY) - 1
    ELSE None

\* a mutant of get_neighbor_index: Right steps without the column test
get_neighbor_index_wrap(b, index, direction) ==
    LET row == index \div b.size
        col == index % b.size
    IN CASE direction = "Up" ->
              IF row = 0 THEN None ELSE (row - 1) * b.size + col
         [] direction = "Down" ->
              IF row = b.size - 1 THEN None ELSE (row + 1) * b.size + col
         [] direction = "Left" ->
              IF col = 0 THEN None ELSE row * b.size + col - 1
         [] direction = "Right" ->
              IF index = b.size * b.size - 1 THEN None
              ELSE row * b.size + col + 1

\* a mutant of get_neighbor_index: Down forgets the column
get_neighbor_index_nocol(b, index, direction) ==
    LET row == index \div b.size
        col == index % b.size
    IN CASE direction = "Up" ->
              IF row = 0 THEN None ELSE (row - 1) * b.size + col
         [] direction = "Down" ->
              IF row = b.size - 1 THEN None ELSE (row + 1) * b.size
         [] direction = "Left" ->
              IF col = 0 THEN None ELSE row * b.size + col - 1
         [] direction = "Right" ->
              IF col = b.size - 1 THEN None ELSE row * b.size + col + 1

\* Board::get_neighbor_index
get_neighbor_index(b, index, direction) ==
    LET row == index \div b.size
        col == index % b.size
    IN CASE direction = "Up" ->
              IF row = 0 THEN None ELSE (row - 1) * b.size + col
         [] direction = "Down" ->
              IF row = b.size - 1 THEN None ELSE (row + 1) * b.size + col
         [] direction = "Left" ->
              IF col = 0 THEN None ELSE row * b.size + col - 1
         [] direction = "Right" ->
              IF col = b.size - 1 THEN None ELSE row * b.size + col + 1

\* Vec::swap on 0-based indices
swap(cells, a, c) ==
    [cells EXCEPT ![a + 1] = cells[c + 1], ![c + 1] = cells[a + 1]]

\* a mutant of move_empty: the neighbour's tile is copied, not exchanged
move_empty_copy(b, direction) ==
    LET empty_index == get_empty_index(b)
        neighbor_index == get_neighbor_index(b, empty_index, direction)
    IN check_solved(
         IF neighbor_index # None
         THEN [b EXCEPT !.cells[empty_index + 1] = b.cells[neighbor_index + 1]]
         ELSE b)

\* a mutant of move_empty: the solved flag is not recomputed
move_empty_stale(b, direction) ==
    LET empty_index == get_empty_index(b)
        neighbor_index == get_neighbor_index(b, empty_index, direction)
    IN IF neighbor_index # None
       THEN [b EXCEPT !.cells = swap(b.cells, empty_index, neighbor_index)]
       ELSE b

\* Board::move_empty, where get_empty_index finds the empty slot
move_empty(b, direction) ==
    LET empty_index == get_empty_index(b)
        neighbor_index == get_neighbor_index(b, empty_index, direction)
    IN check_solved(
         IF neighbor_index # None
         THEN [b EXCEPT !.cells = swap(b.cells, empty_index, neighbor_index)]
         ELSE b)

\* the unwrap of get_empty_index fails
MovePanics(b) == get_empty_index(b) = None

(***************************************************************************)
(* The explored layouts                                                    *)
(***************************************************************************)
RECURSIVE Ball(_, _, _)
Ball(S, size, k) ==
    IF k = 0 THEN S
    ELSE Ball(S \cup {move_empty(new(c, size), d).cells :
                          c \in {x \in S : ~MovePanics(new(x, size))},
                          d \in Directions},
              size, k - 1)

Explored == UNION {Ball({SolvedCells(s)}, s, MaxDist) : s \in 2..MaxSize}

(***************************************************************************)
(* Board::scramble, step by step                                           *)
(***************************************************************************)
\* lines 73-75: cells are reset to the solved layout; solved is not touched
ScrambleReset ==
    /\ pc = "scramble"
    /\ board' = [board EXCEPT !.cells = SolvedCells(board.size)]
    /\ twin' = [twin EXCEPT !.cells = SolvedCells(twin.size)]
    /\ i' = 0
    /\ pc' = "round"
    /\ UNCHANGED <<ret, remaining, completed_level_count, start,
                   calls, probe>>

\* line 81: the round's move_count is drawn
RoundStart ==
    /\ pc = "round"
    /\ \E move_count \in MoveCountLo..(MoveCountEnd - 1) :
           remaining' = move_count
    /\ pc' = "moves"
    /\ UNCHANGED <<board, ret, i, completed_level_count, start,
                   calls, probe, twin>>

\* lines 83-85: one iteration of the inner loop
ScrambleMove ==
    /\ pc = "moves"
    /\ remaining > 0
    /\ \E n \in 0..(DirectionEnd - 1) :
         LET direction == DirectionFrom(n) IN
           IF direction = Invalid \/ MovePanics(board)
           THEN /\ pc' = "panic"
                /\ UNCHANGED <<board, twin, remaining>>
           ELSE /\ board' = move_empty(board, direction)
                /\ board'.cells \in Explored
                /\ twin' = move_empty(twin, direction)
                /\ remaining' = remaining - 1
                /\ pc' = pc
    /\ UNCHANGED <<ret, i, completed_level_count, start, calls, probe>>

\* a mutant of RoundEnd: the loop is left when the round ended solved
RoundEnd_inverted ==
    /\ pc = "moves"
    /\ remaining = 0
    /\ IF board.solved \/ i + 1 >= Rounds
       THEN pc' = "return" /\ i' = i
       ELSE pc' = "round" /\ i' = i + 1
    /\ UNCHANGED <<board, ret, remaining, completed_level_count, start, calls,
                   probe, twin>>

\* lines 87-91 and the end of the for loop: break when the round left the
\* board unsolved, fall out of the loop after the last round, else go on to
\* the next round
RoundEnd ==
    /\ pc = "moves"
    /\ remaining = 0
    /\ IF ~board.solved \/ i + 1 >= Rounds
       THEN pc' = "return" /\ i' = i
       ELSE pc' = "round" /\ i' = i + 1
    /\ UNCHANGED <<board, ret, remaining, completed_level_count, start, calls,
                   probe, twin>>

\* line 92: scramble returns to its caller; a logged board starts a new log
ScrambleReturn ==
    /\ pc = "return"
    /\ pc' = ret
    /\ ret' = "none"
    /\ i' = 0
    /\ start' = IF ret = "idle" THEN board.cells ELSE start
    /\ UNCHANGED <<board, remaining, completed_level_count, calls, probe, twin>>

(***************************************************************************)
(* Calls on a Board from outside: move_empty, scramble                     *)
(***************************************************************************)
\* board.move_empty(direction), logged
CallMoveEmpty(direction) ==
    /\ pc = "idle"
    /\ Len(calls) < MaxCalls
    /\ calls' = Append(calls, direction)
    /\ IF MovePanics(board)
       THEN pc' = "panic" /\ UNCHANGED board
       ELSE pc' = pc /\ board' = move_empty(board, direction)
    /\ UNCHANGED <<ret, i, remaining, completed_level_count, start,
                   probe, twin>>

\* the boards put beside b: other cells and the other value of solved
Twins(b) ==
    IF b.solved
    THEN {new(swap(SolvedCells(b.size), k, b.size * b.size - 1), b.size) :
              k \in {0, b.size * b.size - 2}}
    ELSE {new(SolvedCells(b.size), b.size)}

\* board.scramble(), and twin.scramble() on another board; the log restarts
\* when it returns
CallScramble ==
    /\ pc = "idle"
    /\ pc' = "scramble"
    /\ ret' = "idle"
    /\ start' = <<>>
    /\ calls' = <<>>
    /\ twin' \in Twins(board)
    /\ UNCHANGED <<board, i, remaining, completed_level_count, probe>>

\* board.get_neighbor_index(index, direction) on the probe's arguments
Probe ==
    /\ pc = "probe"
    /\ ~probe.done
    /\ probe' = [probe EXCEPT
                   !.done = TRUE,
                   !.result = get_neighbor_index(board, probe.index,
                                                 probe.direction)]
    /\ UNCHANGED <<board, pc, ret, i, remaining, completed_level_count, start,
                   calls, twin>>

(***************************************************************************)
(* main: the driver loop                                                   *)
(***************************************************************************)
\* while !rl.window_should_close(): the window is closed
Close ==
    /\ pc = "frame"
    /\ pc' = "exit"
    /\ UNCHANGED <<board, ret, i, remaining, completed_level_count, start, calls, probe, twin>>

\* the frame test without its outer condition: SPACE counts and scrambles
\* on any board
FrameTest_anyboard(space) ==
    /\ pc = "frame"
    /\ space => completed_level_count < MaxLevels
    /\ IF space
       THEN /\ completed_level_count' = completed_level_count + 1
            /\ pc' = "scramble"
            /\ ret' = "draw"
       ELSE /\ pc' = IF board.solved THEN "draw" ELSE "key_up"
            /\ UNCHANGED <<completed_level_count, ret>>
    /\ UNCHANGED <<board, i, remaining, start, calls, probe, twin>>

\* lines 208-214: if board.solved, SPACE counts the level and scrambles;
\* else the arrow keys are looked at. space: is_key_pressed(KEY_SPACE)
FrameTest(space) ==
    /\ pc = "frame"
    /\ space => completed_level_count < MaxLevels
    /\ IF board.solved
       THEN IF space
            THEN /\ completed_level_count' = completed_level_count + 1
                 /\ pc' = "scramble"
                 /\ ret' = "draw"
            ELSE /\ pc' = "draw"
                 /\ UNCHANGED <<completed_level_count, ret>>
       ELSE /\ pc' = "key_up"
            /\ UNCHANGED <<completed_level_count, ret>>
    /\ UNCHANGED <<board, i, remaining, start, calls, probe, twin>>

\* if rl.is_key_pressed(key) { board.move_empty(direction); }
\* key_pressed: what is_key_pressed answers
KeyStep(at, key_pressed, direction, next) ==
    /\ pc = at
    /\ IF key_pressed
       THEN IF MovePanics(board)
            THEN pc' = "panic" /\ UNCHANGED board
            ELSE /\ board' = move_empty(board, direction)
                 /\ board'.cells \in Explored
                 /\ pc' = next
       ELSE pc' = next /\ UNCHANGED board
    /\ UNCHANGED <<ret, i, remaining, completed_level_count, start, calls,
                   probe, twin>>

\* lines 215-217
KeyUp(key_pressed) == KeyStep("key_up", key_pressed, "Up", "key_down")
\* lines 219-221
KeyDown(key_pressed) == KeyStep("key_down", key_pressed, "Down", "key_left")
\* lines 223-225
KeyLeft(key_pressed) == KeyStep("key_left", key_pressed, "Left", "key_right")
\* lines 227-229
KeyRight(key_pressed) == KeyStep("key_right", key_pressed, "Right", "draw")

\* lines 232-248: the frame is drawn; the board is only read
Draw ==
    /\ pc = "draw"
    /\ pc' = "frame"
    /\ UNCHANGED <<board, ret, i, remaining, completed_level_count, start,
                   calls, probe, twin>>

(***************************************************************************)
(* Initial states                                                          *)
(***************************************************************************)
NoProbe == [index |-> 0, direction |-> "Up", done |-> TRUE, result |-> None]

\* main, lines 195-197: the solved 4x4 board, about to be scrambled
Init ==
    /\ board = new(SolvedCells(MainSize), MainSize)
    /\ pc = "scramble"
    /\ ret = "frame"
    /\ i = 0
    /\ remaining = 0
    /\ completed_level_count = 0
    /\ start = <<>>
    /\ calls = <<>>
    /\ probe = NoProbe
    /\ twin = board

\* the solved layout of a size with the cells at index k and at the last index
\* exchanged: the empty slot of a 4x4 board at index k
WithEmptyAt(size, k) == swap(SolvedCells(size), k, size * size - 1)

\* [1,2,3,4,5,6,7,8,9,10,11,12,13,14,16,15]
Fixture == swap(SolvedCells(MainSize), 14, 15)

\* the solved layout with tiles 14 and 15 exchanged
Swapped1415 == swap(SolvedCells(MainSize), 13, 14)

InitBoards ==
    {WithEmptyAt(MainSize, k) : k \in 0..(MainSize * MainSize - 1)}
        \cup {Fixture, Swapped1415}

\* Board::new(cells, 4) on a permutation of 1..=16
InitBoard ==
    /\ \E c \in InitBoards :
         /\ board = new(c, MainSize)
         /\ start = c
    /\ pc = "idle"
    /\ ret = "none"
    /\ i = 0
    /\ remaining = 0
    /\ completed_level_count = 0
    /\ calls = <<>>
    /\ probe = NoProbe
    /\ twin = board

\* Board::new(cells, size) on a permutation of 1..=size*size, size >= 2
InitSize ==
    /\ \E s \in 2..MaxSize : \E k \in 0..(s * s - 1) :
         /\ board = new(WithEmptyAt(s, k), s)
         /\ start = WithEmptyAt(s, k)
    /\ pc = "idle"
    /\ ret = "none"
    /\ i = 0
    /\ remaining = 0
    /\ completed_level_count = 0
    /\ calls = <<>>
    /\ probe = NoProbe
    /\ twin = board

\* a 4x4 board and the arguments of one get_neighbor_index call
InitProbe ==
    /\ \E c \in InitBoards : board = new(c, MainSize)
    /\ \E index \in 0..(MainSize * MainSize - 1) : \E d \in Directions :
         probe = [index |-> index, direction |-> d, done |-> FALSE,
                  result |-> None]
    /\ pc = "probe"
    /\ ret = "none"
    /\ i = 0
    /\ remaining = 0
    /\ completed_level_count = 0
    /\ start = <<>>
    /\ calls = <<>>
    /\ twin = board

(***************************************************************************)
(* Specifications                                                          *)
(***************************************************************************)
\* the program: main
Next ==
    \/ ScrambleReset
    \/ RoundStart
    \/ ScrambleMove
    \/ RoundEnd
    \/ ScrambleReturn
    \/ Close
    \/ \E space \in BOOLEAN : FrameTest(space)
    \/ \E key_pressed \in BOOLEAN : KeyUp(key_pressed)
    \/ \E key_pressed \in BOOLEAN : KeyDown(key_pressed)
    \/ \E key_pressed \in BOOLEAN : KeyLeft(key_pressed)
    \/ \E key_pressed \in BOOLEAN : KeyRight(key_pressed)
    \/ Draw

Spec == Init /\ [][Next]_vars

\* a Board under any sequence of move_empty and scramble calls
NextBoard ==
    \/ \E direction \in Directions : CallMoveEmpty(direction)
    \/ CallScramble
    \/ ScrambleReset
    \/ RoundStart
    \/ ScrambleMove
    \/ RoundEnd
    \/ ScrambleReturn

SpecBoard == InitBoard /\ [][NextBoard]_vars

\* the same, on boards of every size
SpecSize == InitSize /\ [][NextBoard]_vars

\* get_neighbor_index on every index and direction
NextProbe == Probe

SpecNeighbor == InitProbe /\ [][NextProbe]_vars

\* main and the board under outside calls side by side: every place where
\* the solved flag is read
InitAll == Init \/ InitBoard

NextAll ==
    \/ \E direction \in Directions : CallMoveEmpty(direction)
    \/ CallScramble
    \/ ScrambleReset
    \/ RoundStart
    \/ ScrambleMove
    \/ RoundEnd
    \/ ScrambleReturn
    \/ Close
    \/ \E space \in BOOLEAN : FrameTest(space)
    \/ \E key_pressed \in BOOLEAN : KeyUp(key_pressed)
    \/ \E key_pressed \in BOOLEAN : KeyDown(key_pressed)
    \/ \E key_pressed \in BOOLEAN : KeyLeft(key_pressed)
    \/ \E key_pressed \in BOOLEAN : KeyRight(key_pressed)
    \/ Draw

SpecAll == InitAll /\ [][NextAll]_vars

(***************************************************************************)
(* Properties                                                              *)
(***************************************************************************)
\* [1, 2, ..., 16]
Solved16 == <<1, 2, 3, 4, 5, 6, 7, 8, 9, 10, 11, 12, 13, 14, 15, 16>>

\* cells is a permutation of 1..=16: length 16, no duplicates, no gaps
IsPermutation16(cells) ==
    /\ Len(cells) = 16
    /\ \A v \in 1..16 : Cardinality({k \in 1..16 : cells[k] = v}) = 1

\* the index (0-based) of the cell holding v in a permutation
IndexOf(cells, v) == (CHOOSE k \in 1..Len(cells) : cells[k] = v) - 1

\* the empty slot of a 4x4 layout has no neighbour in the direction
AtBoundary(cells, direction) ==
    LET row == IndexOf(cells, 16) \div 4
        col == IndexOf(cells, 16) % 4
    IN \/ direction = "Up" /\ row = 0
       \/ direction = "Down" /\ row = 3
       \/ direction = "Left" /\ col = 0
       \/ direction = "Right" /\ col = 3

\* C1: from a 4x4 board holding a permutation of 1..=16, after any sequence
\* of move_empty and scramble calls (and at every step inside them) cells is
\* a permutation of 1..=16 of length 16, and exactly one cell holds 16.
C1_PermutationPreserved ==
    /\ IsPermutation16(board.cells)
    /\ Cardinality({k \in 1..Len(board.cells) : board.cells[k] = 16}) = 1

\* C1 witness: a scramble has returned and move_empty calls have since
\* changed the layout it left.
C1_Witness ==
    /\ pc = "idle"
    /\ start \notin InitBoards
    /\ Len(calls) = MaxCalls
    /\ board.cells # start
    /\ board.cells # Solved16

\* C2: at every operation boundary (after Board::new, after every
\* move_empty call, boundary no-ops included, and after scramble returns,
\* whatever the board was before) solved is true iff cells = [1, ..., 16].
C2_SolvedFlagConsistent ==
    pc = "idle" => (board.solved <=> board.cells = Solved16)

\* C2 witness: scramble left an unsolved layout and move_empty calls have
\* brought the board to solved.
C2_Witness ==
    /\ pc = "idle"
    /\ start \notin InitBoards
    /\ calls # <<>>
    /\ board.cells = Solved16
    /\ board.solved

\* C3 as claimed: on a solved 4x4 board, move_empty(Down) then move_empty(Up)
\* gives back the solved permutation with solved = true.
C3_DownThenUpRestores ==
    (start = Solved16 /\ calls = <<"Down", "Up">>)
        => (board.cells = Solved16 /\ board.solved)

\* C3 amended: on a solved 4x4 board, move_empty(Up) then move_empty(Down)
\* gives back the solved permutation with solved = true; Down then Up does
\* not: Down is a boundary no-op there and Up then leaves the empty slot at
\* index 11, cells = [1..11, 16, 13, 14, 15, 12], solved = false.
C3_UpThenDownRestores ==
    /\ (start = Solved16 /\ calls = <<"Up", "Down">>)
          => (pc = "idle" /\ board.cells = Solved16 /\ board.solved)
    /\ (start = Solved16 /\ calls = <<"Down", "Up">>)
          => /\ pc = "idle"
             /\ board.cells = <<1, 2, 3, 4, 5, 6, 7, 8, 9, 10, 11, 16,
                                13, 14, 15, 12>>
             /\ ~board.solved

\* C3 witness: a solved board after move_empty(Up), move_empty(Down).
C3_Witness ==
    /\ pc = "idle"
    /\ start = Solved16
    /\ calls = <<"Up", "Down">>
    /\ board.solved

\* C4: a move_empty call in a direction in which the empty slot has no
\* neighbour (Up in row 0, Down in row 3, Left in column 0, Right in column
\* 3) does not panic and leaves cells, size and solved as they were.
C4_BoundaryNoOp ==
    [][\A d \in Directions :
          (calls' = Append(calls, d) /\ AtBoundary(board.cells, d))
              => (pc' # "panic" /\ board' = board)]_vars

\* C4 witness: move_empty(Up) was called with the empty slot at index 2
\* (row 0), and the layout is the one the board started with.
C4_Witness ==
    /\ pc = "idle"
    /\ start = <<1, 2, 16, 4, 5, 6, 7, 8, 9, 10, 11, 12, 13, 14, 15, 3>>
    /\ calls = <<"Up">>
    /\ board.cells = start

\* the neighbour of index n of a 4x4 grid, as the claim states it
ExpectedNeighbor(n, direction) ==
    LET row == n \div 4
        col == n % 4
    IN CASE direction = "Up" -> IF row = 0 THEN None ELSE n - 4
         [] direction = "Down" -> IF row = 3 THEN None ELSE n + 4
         [] direction = "Left" -> IF col = 0 THEN None ELSE n - 1
         [] direction = "Right" -> IF col = 3 THEN None ELSE n + 1

\* C5: on a 4x4 board, get_neighbor_index(n, d) is "no neighbour" exactly
\* when the step leaves the grid and else n-4 (Up), n+4 (Down), n-1 (Left),
\* n+1 (Right); index 0 has no Up and no Left, Down = 4, Right = 1; index 15
\* has no Down and no Right, Up = 11, Left = 14.
C5_NeighborIndex ==
    (pc = "probe" /\ probe.done) =>
        /\ probe.result = ExpectedNeighbor(probe.index, probe.direction)
        /\ probe.index = 0 =>
              probe.result = CASE probe.direction = "Up" -> None
                               [] probe.direction = "Left" -> None
                               [] probe.direction = "Down" -> 4
                               [] probe.direction = "Right" -> 1
        /\ probe.index = 15 =>
              probe.result = CASE probe.direction = "Up" -> 11
                               [] probe.direction = "Left" -> 14
                               [] probe.direction = "Down" -> None
                               [] probe.direction = "Right" -> None

\* C5 witness: get_neighbor_index(7, Right) has answered "no neighbour"
\* (index 7 is the last column of row 1).
C5_Witness ==
    /\ pc = "probe"
    /\ probe.done
    /\ probe.index = 7
    /\ probe.direction = "Right"
    /\ probe.result = None

\* some sequence of at most k move_empty calls takes the board to
\* cells = [1..16] with solved = true
RECURSIVE CanSolve(_, _)
CanSolve(b, k) ==
    \/ b.cells = Solved16 /\ b.solved
    \/ /\ k > 0
       /\ ~MovePanics(b)
       /\ \E d \in Directions : CanSolve(move_empty(b, d), k - 1)

\* C6: every board scramble returns is solvable: some finite sequence of
\* move_empty calls takes it to cells = [1..16] with solved = true (on the
\* explored layouts, a sequence of at most MaxDist calls).
C6_ScrambleSolvable ==
    pc = "return" => CanSolve(board, MaxDist)

\* C6 witness: scramble returns an unsolved board that no sequence of fewer
\* than MaxDist calls solves.
C6_Witness ==
    /\ pc = "return"
    /\ ~board.solved
    /\ ~CanSolve(board, MaxDist - 1)
    /\ CanSolve(board, MaxDist)

\* C7: scramble can return a solved board, and does so exactly when all 20
\* rounds ended solved: it returns with solved = true only out of the last
\* round (i = 19); a further round is entered only from a round that ended
\* solved; a last round that ends solved is followed by the return, and the
\* return hands back the board as the last round left it.
C7_SolvedOnlyAfterAllRounds ==
    [][/\ (pc' = "return" /\ board'.solved) => i' = Rounds - 1
       /\ (pc = "moves" /\ pc' = "round") => (board.solved /\ i' = i + 1)
       /\ (pc = "scramble" /\ pc' = "round") => i' = 0
       /\ (pc = "moves" /\ remaining = 0 /\ i = Rounds - 1 /\ board.solved)
             => (pc' = "return" /\ board' = board)
       /\ pc = "return" => (pc' = ret /\ board' = board)]_vars

\* C7 witness: scramble returns a solved board after its 20th round.
C7_Witness ==
    /\ pc = "return"
    /\ i = Rounds - 1
    /\ board.solved
    /\ board.cells = Solved16

\* C8 as claimed: for every size >= 2 and every permutation of 1..=size*size
\* move_empty and scramble do not panic, and get_empty_index is the position
\* of the value size*size.
C8_TotalForAnySize ==
    /\ pc # "panic"
    /\ (pc = "idle" /\ calls # <<>>) =>
          get_empty_index(board) = IndexOf(board.cells, board.size * board.size)

\* a move_empty call of the driver loop
RoutesMove == KeyUp(TRUE) \/ KeyDown(TRUE) \/ KeyLeft(TRUE) \/ KeyRight(TRUE)

\* C9 as claimed: the driver loop never calls move_empty on a board whose
\* solved flag is true, whatever arrow keys are pressed in a frame.
C9_NoMoveOnSolvedBoard ==
    [][RoutesMove => ~board.solved]_vars

\* C10 as claimed: the fixture [1..14, 16, 15] is unsolved, and
\* move_empty(Left) on it gives cells = [1..13, 15, 16, 14].
C10_FixtureLeftAsClaimed ==
    LET fixture == <<1, 2, 3, 4, 5, 6, 7, 8, 9, 10, 11, 12, 13, 14, 16, 15>>
    IN /\ (start = fixture /\ calls = <<>> /\ pc = "idle") => ~board.solved
       /\ (start = fixture /\ calls = <<"Left">>) =>
             board.cells = <<1, 2, 3, 4, 5, 6, 7, 8, 9, 10, 11, 12, 13,
                             15, 16, 14>>

\* C10 amended: the fixture [1..14, 16, 15] is unsolved; move_empty(Left)
\* swaps the empty slot at index 14 with the cell at index 13, which holds
\* 14, so the cells become [1..13, 16, 14, 15], and solved, recomputed from
\* them, is false.
C10_FixtureLeft ==
    LET fixture == <<1, 2, 3, 4, 5, 6, 7, 8, 9, 10, 11, 12, 13, 14, 16, 15>>
    IN /\ (start = fixture /\ calls = <<>> /\ pc = "idle") =>
             /\ ~board.solved
             /\ IndexOf(board.cells, 16) = 14
             /\ board.cells[13 + 1] = 14
       /\ (start = fixture /\ calls = <<"Left">>) =>
             /\ pc = "idle"
             /\ board.cells = <<1, 2, 3, 4, 5, 6, 7, 8, 9, 10, 11, 12, 13,
                                16, 14, 15>>
             /\ ~board.solved

\* C10 witness: move_empty(Left) has been called on the fixture.
C10_Witness ==
    /\ pc = "idle"
    /\ start = <<1, 2, 3, 4, 5, 6, 7, 8, 9, 10, 11, 12, 13, 14, 16, 15>>
    /\ calls = <<"Left">>
    /\ IndexOf(board.cells, 16) = 13

\* C11: when the empty slot has a neighbour in direction d, move_empty(d)
\* exchanges exactly the contents of the empty slot's index and of that
\* neighbour's index: afterwards 16 is at the neighbour index and the
\* neighbour's former tile at the former empty index; every other cell and
\* size are unchanged.
C11_SlideExchangesTwoCells ==
    [][\A d \in Directions :
          (calls' = Append(calls, d) /\ ~AtBoundary(board.cells, d)) =>
              LET e == IndexOf(board.cells, 16)
                  n == ExpectedNeighbor(e, d)
              IN /\ pc' # "panic"
                 /\ Len(board'.cells) = Len(board.cells)
                 /\ board'.cells[n + 1] = 16
                 /\ board'.cells[e + 1] = board.cells[n + 1]
                 /\ \A k \in 0..15 :
                       (k # e /\ k # n) => board'.cells[k + 1] = board.cells[k + 1]
                 /\ board'.size = board.size]_vars

\* C11 witness: move_empty(Up) on the layout with the empty slot at index 6
\* has put tile 3 (from index 2) at index 6 and the empty slot at index 2.
C11_Witness ==
    /\ pc = "idle"
    /\ start = <<1, 2, 3, 4, 5, 6, 16, 8, 9, 10, 11, 12, 13, 14, 15, 7>>
    /\ calls = <<"Up">>
    /\ board.cells = <<1, 2, 16, 4, 5, 6, 3, 8, 9, 10, 11, 12, 13, 14, 15, 7>>

\* what is left of scramble's loops: the rounds not yet ended, and the moves
\* left in the current round
ScrambleRank ==
    (Rounds - i) * (MoveCountEnd + 1)
        + (IF pc = "round" THEN MoveCountEnd ELSE remaining)

\* C12: scramble first resets cells to [1..16], then runs at least 1 and at
\* most 20 rounds; each round applies between 20 and 99 move_empty calls
\* with directions among Up, Down, Left, Right; scramble returns right after
\* the first round at whose end solved is false (and after the 20th round
\* otherwise) and at no other point; what is left of its loops decreases
\* with every step, so it ends after at most 20 * 99 moves.
C12_ScrambleRounds ==
    [][/\ pc = "scramble" =>
             (pc' = "round" /\ i' = 0 /\ board'.cells = Solved16)
       /\ pc = "round" =>
             /\ pc' = "moves"
             /\ i \in 0..19
             /\ remaining' \in 20..99
             /\ board' = board
       /\ (pc = "moves" /\ remaining > 0) =>
             /\ pc' = "moves"
             /\ remaining' = remaining - 1
             /\ i' = i
             /\ \E d \in Directions : board' = move_empty(board, d)
       /\ (pc = "moves" /\ remaining = 0) =>
             /\ board' = board
             /\ IF ~board.solved \/ i = 19
                THEN pc' = "return"
                ELSE pc' = "round" /\ i' = i + 1
       /\ pc' = "return" => (pc = "moves" /\ remaining = 0)
       /\ (pc \in {"round", "moves"} /\ pc' \in {"round", "moves"}) =>
             (ScrambleRank' < ScrambleRank /\ ScrambleRank' >= 0)
       /\ pc' = "round" => ScrambleRank' <= 20 * 101 + 100]_vars

\* C12 witness: scramble returns after its third round, the first round that
\* left the board unsolved.
C12_Witness ==
    /\ pc = "return"
    /\ i = 2
    /\ ~board.solved

\* C13: on a size-4 board scramble never panics, whatever cells held before
\* the call: every integer it passes to Direction::from is in 0..=3 and is
\* converted to a direction, and every get_empty_index call made during
\* scramble finds the value 16.
C13_ScrambleNeverPanics ==
    /\ pc # "panic"
    /\ \A n \in 0..(DirectionEnd - 1) :
          n \in 0..3 /\ DirectionFrom(n) \in Directions
    /\ pc \in {"round", "moves"} =>
          /\ get_empty_index(board) # None
          /\ board.cells[get_empty_index(board) + 1] = 16

\* C13 witness: a scramble called on a board has run all its 20 rounds and
\* returns.
C13_Witness ==
    /\ pc = "return"
    /\ ret = "idle"
    /\ i = Rounds - 1

\* the solved flag is read here: the round-end test of scramble (line 88)
\* and the two tests of a frame of main (lines 208 and 237)
ReadsSolved ==
    \/ pc = "moves" /\ remaining = 0
    \/ pc = "frame"
    \/ pc = "draw"

\* C14: every read of the solved flag (scramble's round-end test, the
\* driver's two tests per frame) sees a value equal to cells = [1..16] at
\* that moment, although scramble's reset does not recompute the flag and
\* scramble may be entered with any board.
C14_ReadsSeeFreshFlag ==
    ReadsSolved => (board.solved <=> board.cells = Solved16)

\* C14 witness: a scramble called on a board from outside is at the round-end
\* test of its first round, with the board solved.
C14_Witness ==
    /\ pc = "moves"
    /\ remaining = 0
    /\ ret = "idle"
    /\ i = 0
    /\ board.solved

\* Up <-> Down, Left <-> Right
Opposite(direction) ==
    CASE direction = "Up" -> "Down"
      [] direction = "Down" -> "Up"
      [] direction = "Left" -> "Right"
      [] direction = "Right" -> "Left"

\* C15: for every 4x4 board (the layouts scramble leaves and the layouts
\* with the empty slot at each index) and every direction d in which the
\* empty slot has a neighbour, move_empty(d) followed by
\* move_empty(opposite(d)) restores cells and solved to their values before
\* the two calls.
C15_InverseMoveRoundTrip ==
    (/\ Len(calls) = 2
     /\ ~AtBoundary(start, calls[1])
     /\ calls[2] = Opposite(calls[1]))
        => /\ pc = "idle"
           /\ board.cells = start
           /\ board.solved = (start = Solved16)

\* C15 witness: a layout left by scramble, other than the solved one, after
\* move_empty(Left) and move_empty(Right).
C15_Witness ==
    /\ pc = "idle"
    /\ start \notin InitBoards
    /\ calls = <<"Left", "Right">>
    /\ ~AtBoundary(start, "Left")
    /\ board.cells = start

\* the number of inversions of a layout, over all 16 values
Inversions(cells) ==
    Cardinality({p \in (1..16) \X (1..16) :
                     p[1] < p[2] /\ cells[p[1]] > cells[p[2]]})

\* the Manhattan distance of the empty slot from the bottom-right corner
EmptyDistance(cells) ==
    (3 - (IndexOf(cells, 16) \div 4)) + (3 - (IndexOf(cells, 16) % 4))

\* C16: in every board main reaches from the solved 4x4 board by scramble
\* and move_empty calls, the parity of the permutation cells equals the
\* parity of the Manhattan distance of the empty slot from the bottom-right
\* corner; so the board with tiles 14 and 15 exchanged and the empty slot
\* last is never reached.
C16_ParityInvariant ==
    /\ Inversions(board.cells) % 2 = EmptyDistance(board.cells) % 2
    /\ board.cells # <<1, 2, 3, 4, 5, 6, 7, 8, 9, 10, 11, 12, 13, 15, 14, 16>>

\* C16 witness: after a second scramble, a frame has left the empty slot an
\* odd distance from the corner in an odd permutation.
C16_Witness ==
    /\ pc = "draw"
    /\ completed_level_count = 1
    /\ EmptyDistance(board.cells) = 3
    /\ Inversions(board.cells) % 2 = 1

\* C17: what scramble leaves behind does not depend on the board it is called
\* on. Two boards that enter scramble with different cells and different
\* values of solved, and are given the same draws, read the same solved flag
\* at every round-end test (so they run the same rounds) and have equal cells
\* and an equal solved flag when the call returns.
C17_ScrambleIgnoresPriorBoard ==
    /\ (pc = "scramble" /\ ret = "idle") =>
           (twin.cells # board.cells /\ twin.solved # board.solved)
    /\ (pc = "moves" /\ remaining = 0) => twin.solved = board.solved
    /\ pc = "return" => (twin.cells = board.cells /\ twin.solved = board.solved)

C17_Witness ==
    /\ pc = "return"
    /\ ret = "idle"
    /\ i = 1
    /\ ~board.solved
    /\ twin = board

\* the arrow-key tests of a frame, lines 215-229
KeyTests == {"key_up", "key_down", "key_left", "key_right"}

\* C18: in the driver loop completed_level_count starts at 0 and never
\* decreases; it goes up, by exactly 1, in exactly the frames that find
\* board.solved true and SPACE pressed; each such step enters scramble once,
\* which returns to the drawing of the same frame; scramble is entered at no
\* other time after start-up; and a frame that starts with the board solved
\* reaches none of the arrow-key tests, so it routes no move_empty.
C18_LevelCounting ==
    /\ completed_level_count = 0
    /\ [][/\ completed_level_count' >= completed_level_count
          /\ completed_level_count' # completed_level_count =>
                 completed_level_count' = completed_level_count + 1
          /\ completed_level_count' = completed_level_count + 1 <=>
                 (FrameTest(TRUE) /\ board.solved)
          /\ completed_level_count' = completed_level_count + 1 =>
                 (pc' = "scramble" /\ ret' = "draw" /\ board' = board)
          /\ (pc' = "scramble" /\ pc # "scramble") =>
                 (pc = "frame" /\
                  completed_level_count' = completed_level_count + 1)
          /\ (pc = "return" /\ pc' # pc) => (ret = "draw" => pc' = "draw")
          /\ (pc = "frame" /\ board.solved) => pc' \notin KeyTests
          /\ (pc' \in KeyTests /\ pc \notin KeyTests) =>
                 (pc = "frame" /\ ~board.solved)
          /\ RoutesMove => pc \in KeyTests
      ]_vars

C18_Witness ==
    /\ completed_level_count = 1
    /\ pc = "scramble"
    /\ ret = "draw"
    /\ board.solved

====
